---- MODULE Spec2Model ----
(***************************************************************************)
(* Model of the experiment-config registry: ConfigurationService (the      *)
(* later of the two versions in configuration.service.ts, lines 200-485),  *)
(* ServiceConfigurationRepository, ConnectorService.getConfigFromSidecar   *)
(* and EventService.publishConfiguration.                                  *)
(*                                                                         *)
(* JavaScript runs every synchronous method to completion, so each         *)
(* synchronous method is one action.  addService contains one await (the   *)
(* sidecar request) and is split at it: AddService issues the request,     *)
(* SidecarResponds / SidecarFails resume the call.                         *)
(*                                                                         *)
(* Arrays are JavaScript objects: addReplica stores the service's          *)
(* globalVariables array itself in the new replica, so the model keeps the *)
(* variable arrays in a heap and the records hold references into it.      *)
(*                                                                         *)
(* heartbeat calls findService, and ServiceConfigurationRepository         *)
(* .findByName throws for an absent name, so the call of addService at     *)
(* line 229 is never reached.  addService is a public method of the class  *)
(* and is modelled as an entry point of its own; without it the repository *)
(* would stay empty for ever.                                              *)
(***************************************************************************)
EXTENDS Integers, Sequences, FiniteSets, TLC

\* ------------------------------------------------------------------ bounds
Services == {"A", "B"}
Replicas == {"r1", "r2"}
Keys == {"k1", "k2"}
Values == {"500", "abc"}
MaxBatch == 2
MaxClock == 4
MaxEvents == 1

\* ------------------------------------------------------------- state space
VARIABLES
  serviceConfigurations, \* the repository's Map: name -> ServiceConfiguration
  heap,                  \* contents of the ConfigurationVariable[] arrays
  awaiting,              \* addService calls suspended at the sidecar request
  published,             \* events handed to EventPublisherService.publishEvent
  now,                   \* the clock read by new Date()
  last                   \* the call handled last and how it ended

vars == <<serviceConfigurations, heap, awaiting, published, now, last>>

\* lastSeen of a replica that never had one assigned (the seed replica).
NoDate == 0

\* One array literal shared by the records of all services.
GlobalArrayShared(s) == <<"A", "globalVariables">>

\* The two array literals of addService that hold ConfigurationVariables:
\* `globalVariables: []` and the seed replica's `replicaVariables: []`.
GlobalArray(s) == <<s, "globalVariables">>
SeedArray(s) == <<s, "replicaVariables">>
Refs == {GlobalArray(s) : s \in Services} \cup {SeedArray(s) : s \in Services}

ConfigurationVariable == [key : Keys, value : Values]

\* The request bodies: non-empty lists of variables (BatchUpdateVariableDto).
Batches ==
  UNION {[1..n -> ConfigurationVariable] : n \in 1..MaxBatch}

\* Answers of a sidecar: data.configuration, in the order of Object.entries.
SidecarConfigurations ==
  { <<>>,
    <<[key |-> "k1", type |-> "integer", defaultValue |-> "500"]>>,
    <<[key |-> "k1", type |-> "integer", defaultValue |-> "500"],
      [key |-> "k2", type |-> "string", defaultValue |-> "abc"]>> }

NoVariables == <<>>

Stored(s) == s \in DOMAIN serviceConfigurations

Init ==
  /\ serviceConfigurations = [s \in {} |-> s]
  /\ heap = [ref \in Refs |-> <<>>]
  /\ awaiting = [c \in Services \X Replicas |-> 0]
  /\ published = <<>>
  /\ now = 1
  /\ last = [op |-> "none", svc |-> "none", rep |-> "none",
             vars |-> NoVariables, data |-> <<>>, outcome |-> "none"]

\* Number of sidecar requests for s that have not been answered yet.
RECURSIVE SumOver(_, _)
SumOver(f, S) ==
  IF S = {} THEN 0
  ELSE LET x == CHOOSE y \in S : TRUE IN f[x] + SumOver(f, S \ {x})

InFlight(s) == SumOver(awaiting, {c \in Services \X Replicas : c[1] = s})

Call(op, s, r, variables, data, outcome) ==
  [op |-> op, svc |-> s, rep |-> r, vars |-> variables, data |-> data,
   outcome |-> outcome]

\* ------------------------------------------------- ConfigurationRepository
\* Map.has / Map.get / Map.set / Map.delete on serviceConfigurations.
MapSet(map, name, value) ==
  [n \in DOMAIN map \cup {name} |-> IF n = name THEN value ELSE map[n]]

MapDelete(map, name) == [n \in DOMAIN map \ {name} |-> map[n]]

\* create without the has() test: a stored record is replaced.
RepositoryCreateOverwriting(map, serviceConfiguration) ==
  [thrown |-> "none",
   map |-> MapSet(map, serviceConfiguration.name, serviceConfiguration)]

\* create: throws Error when the name is stored, otherwise Map.set.
RepositoryCreate(map, serviceConfiguration) ==
  IF serviceConfiguration.name \in DOMAIN map
  THEN [thrown |-> "Error", map |-> map]
  ELSE [thrown |-> "none",
        map |-> MapSet(map, serviceConfiguration.name, serviceConfiguration)]

\* findByName: throws NotFoundException when Map.get yields undefined.
FindByNameThrows(map, name) == name \notin DOMAIN map

\* delete reporting what Map.has says and removing nothing.
RepositoryDeleteKeeping(map, name) ==
  [result |-> name \in DOMAIN map, map |-> map]

\* delete reporting a removal whether or not the name was stored.
RepositoryDeleteAlwaysTrue(map, name) ==
  [result |-> TRUE, map |-> MapDelete(map, name)]

\* delete: the boolean returned by Map.delete.
RepositoryDelete(map, name) ==
  [result |-> name \in DOMAIN map, map |-> MapDelete(map, name)]

\* Object.assign with the fields the target already has taking precedence.
AssignKeepingTarget(target, source) ==
  [f \in DOMAIN target \cup DOMAIN source |->
     IF f \in DOMAIN target THEN target[f] ELSE source[f]]

\* Object.assign(target, source): every own field of source is written.
Assign(target, source) ==
  [f \in DOMAIN target \cup DOMAIN source |->
     IF f \in DOMAIN source THEN source[f] ELSE target[f]]

\* update: findByName throws for an absent name; otherwise Object.assign on
\* the stored object, Map.set under the name given, the object returned.
RepositoryUpdate(map, name, update) ==
  IF FindByNameThrows(map, name)
  THEN [thrown |-> "NotFoundException", map |-> map]
  ELSE LET serviceConfiguration == Assign(map[name], update)
       IN [thrown |-> "none",
           map |-> MapSet(map, name, serviceConfiguration),
           result |-> serviceConfiguration]

\* findAll: the stored records (Array.from(values()), order left aside).
FindAll(map) == {map[n] : n \in DOMAIN map}

\* findAllServiceNames: findAll().map((service) => service.name).
FindAllServiceNames(map) == {service.name : service \in FindAll(map)}

\* --------------------------------------------------- ConfigurationService
\* findService: findByName throws before the `!service` test can run.
FindServiceThrows(name) == FindByNameThrows(serviceConfigurations, name)

\* findIndex((existingVariable) => existingVariable.key === key); 0 is -1.
FindIndexOfKey(list, key) ==
  IF \E i \in 1..Len(list) : list[i].key = key
  THEN CHOOSE i \in 1..Len(list) :
         list[i].key = key /\ \A j \in 1..(i - 1) : list[j].key # key
  ELSE 0

\* find never matching: every replica id counts as unknown.
FindReplicaNever(replicas, replicaId) == 0

\* find((replica) => replica.id === replicaId), as an index; 0 is undefined.
FindReplica(replicas, replicaId) ==
  IF \E i \in 1..Len(replicas) : replicas[i].id = replicaId
  THEN CHOOSE i \in 1..Len(replicas) :
         replicas[i].id = replicaId
         /\ \A j \in 1..(i - 1) : replicas[j].id # replicaId
  ELSE 0

\* The forEach body pushing every variable, the overwrite of an existing
\* key being lost.
AddOrUpdateAlwaysPush(list, variable) == Append(list, variable)

\* The forEach body leaving the value of an existing key as it was.
AddOrUpdateKeepingExisting(list, variable) ==
  IF FindIndexOfKey(list, variable.key) > 0
  THEN list
  ELSE Append(list, variable)

\* One round of the forEach in the batch updates: overwrite in place or push.
AddOrUpdate(list, variable) ==
  LET existingVarIndex == FindIndexOfKey(list, variable.key)
  IN IF existingVarIndex > 0
     THEN [list EXCEPT ![existingVarIndex] = variable]
     ELSE Append(list, variable)

\* variables.forEach(...) over the whole request, left to right.
RECURSIVE Merge(_, _)
Merge(list, variables) ==
  IF variables = <<>> THEN list
  ELSE Merge(AddOrUpdate(list, Head(variables)), Tail(variables))

\* The forEach of addService over Object.entries(data.configuration).
DefaultVariables(configuration) ==
  [i \in 1..Len(configuration) |->
     [key |-> configuration[i].key, value |-> configuration[i].defaultValue]]

VariableDefinitions(configuration) ==
  [i \in 1..Len(configuration) |->
     [key |-> configuration[i].key, type |-> configuration[i].type]]

\* The object literal of addService after the forEach has filled it.  The
\* two arrays are private to the call until create stores the object, so
\* they enter the heap when the record does.
NewService(serviceName, initialReplicaId) ==
  [name |-> serviceName,
   replicas |-> <<[id |-> initialReplicaId,
                   replicaVariables |-> SeedArray(serviceName),
                   lastSeen |-> NoDate]>>,
   globalVariables |-> GlobalArray(serviceName),
   variableDefinitions |-> <<>>]

\* A reference is garbage once no stored record reaches it; its cell is
\* emptied so that equal program states are equal model states.
Reachable(map) ==
  UNION {{map[n].globalVariables} \cup
         {map[n].replicas[i].replicaVariables : i \in 1..Len(map[n].replicas)}
         : n \in DOMAIN map}

Collect(map, h) ==
  [ref \in Refs |-> IF ref \in Reachable(map) THEN h[ref] ELSE <<>>]

Tick == now' = now + 1

\* addReplica giving the new replica the seed replica's array instead of
\* the service's globalVariables.
AddReplicaWithoutGlobalVariables(service, replicaId) ==
  [service EXCEPT !.replicas =
     Append(@, [id |-> replicaId,
                replicaVariables |-> SeedArray(service.name),
                lastSeen |-> now])]

\* addReplica: the new replica's replicaVariables IS service.globalVariables
\* (`const variables = service.globalVariables`), the same array object.
AddReplica(service, replicaId) ==
  [service EXCEPT !.replicas =
     Append(@, [id |-> replicaId,
                replicaVariables |-> service.globalVariables,
                lastSeen |-> now])]

\* The heartbeat stamping every replica of the service, not the one found.
HeartbeatTouchingEveryReplica(s, r) ==
  /\ now <= MaxClock
  /\ Tick
  /\ UNCHANGED <<heap, awaiting, published>>
  /\ IF FindServiceThrows(s)
     THEN /\ UNCHANGED serviceConfigurations
          /\ last' = Call("heartbeat", s, r, NoVariables, <<>>,
                          "NotFoundException")
     ELSE LET service == serviceConfigurations[s]
              index == FindReplica(service.replicas, r)
          IN /\ serviceConfigurations' =
                  [serviceConfigurations EXCEPT ![s] =
                     IF index = 0
                     THEN AddReplica(service, r)
                     ELSE [service EXCEPT !.replicas =
                             [i \in 1..Len(service.replicas) |->
                                [service.replicas[i] EXCEPT
                                   !.lastSeen = now]]]]
             /\ last' = Call("heartbeat", s, r, NoVariables, <<>>, "returned")

\* heartbeat(serviceName, replicaId)
Heartbeat(s, r) ==
  /\ now <= MaxClock
  /\ Tick
  /\ UNCHANGED <<heap, awaiting, published>>
  /\ IF FindServiceThrows(s)
     THEN /\ UNCHANGED serviceConfigurations
          /\ last' = Call("heartbeat", s, r, NoVariables, <<>>,
                          "NotFoundException")
     ELSE LET service == serviceConfigurations[s]
              index == FindReplica(service.replicas, r)
          IN /\ serviceConfigurations' =
                  [serviceConfigurations EXCEPT ![s] =
                     IF index = 0
                     THEN AddReplica(service, r)
                     ELSE [service EXCEPT !.replicas[index].lastSeen = now]]
             /\ last' = Call("heartbeat", s, r, NoVariables, <<>>, "returned")

\* addService up to its await: the sidecar request is on its way.
AddService(s, r) ==
  /\ now <= MaxClock
  /\ Tick
  /\ awaiting' = [awaiting EXCEPT ![<<s, r>>] = @ + 1]
  /\ UNCHANGED <<serviceConfigurations, heap, published>>
  /\ last' = Call("addService", s, r, NoVariables, <<>>, "pending")

\* addService from its await on, the sidecar having answered with
\* data.configuration: fill the object, then serviceRepository.create.
SidecarResponds(s, r, configuration) ==
  /\ now <= MaxClock
  /\ awaiting[<<s, r>>] > 0
  /\ Tick
  /\ awaiting' = [awaiting EXCEPT ![<<s, r>>] = @ - 1]
  /\ UNCHANGED published
  /\ LET service == [NewService(s, r) EXCEPT
                       !.variableDefinitions = VariableDefinitions(configuration)]
         created == RepositoryCreate(serviceConfigurations, service)
     IN /\ serviceConfigurations' = created.map
        /\ heap' = IF created.thrown = "none"
                   THEN [heap EXCEPT
                           ![service.globalVariables] =
                              DefaultVariables(configuration),
                           ![service.replicas[1].replicaVariables] = <<>>]
                   ELSE heap
        /\ last' = Call("addService", s, r, NoVariables, configuration,
                        IF created.thrown = "none" THEN "resolved"
                        ELSE created.thrown)

\* SidecarFails with the record stored although the request failed, as if
\* create had been moved in front of the await.
SidecarFailsStoringRecord(s, r) ==
  /\ now <= MaxClock
  /\ awaiting[<<s, r>>] > 0
  /\ Tick
  /\ awaiting' = [awaiting EXCEPT ![<<s, r>>] = @ - 1]
  /\ UNCHANGED <<heap, published>>
  /\ serviceConfigurations' =
       RepositoryCreate(serviceConfigurations, NewService(s, r)).map
  /\ last' = Call("addService", s, r, NoVariables, <<>>, "rejected")

\* addService from its await on, getConfigFromSidecar having logged and
\* rethrown the error of the request: the call ends before the forEach.
SidecarFails(s, r) ==
  /\ now <= MaxClock
  /\ awaiting[<<s, r>>] > 0
  /\ Tick
  /\ awaiting' = [awaiting EXCEPT ![<<s, r>>] = @ - 1]
  /\ UNCHANGED <<serviceConfigurations, heap, published>>
  /\ last' = Call("addService", s, r, NoVariables, <<>>, "rejected")

\* The global batch update also rewriting the definitions from the list.
BatchAddOrUpdateServiceVariablesDefining(s) ==
  /\ now <= MaxClock
  /\ Tick
  /\ UNCHANGED <<awaiting, published>>
  /\ IF FindServiceThrows(s)
     THEN /\ UNCHANGED <<serviceConfigurations, heap>>
          /\ last' = Call("batchAddOrUpdateServiceVariables", s, "none",
                          NoVariables, <<>>, "NotFoundException")
     ELSE \E variables \in Batches :
            LET service == serviceConfigurations[s]
            IN /\ heap' = [heap EXCEPT ![service.globalVariables] =
                             Merge(@, variables)]
               /\ serviceConfigurations' =
                    [serviceConfigurations EXCEPT ![s].variableDefinitions =
                       [i \in 1..Len(heap'[service.globalVariables]) |->
                          [key |-> heap'[service.globalVariables][i].key,
                           type |-> "string"]]]
               /\ last' = Call("batchAddOrUpdateServiceVariables", s, "none",
                               variables, <<>>, "returned")

\* batchAddOrUpdateServiceVariables(serviceName, variables); the request
\* body is read only once findService has returned.
BatchAddOrUpdateServiceVariables(s) ==
  /\ now <= MaxClock
  /\ Tick
  /\ UNCHANGED <<serviceConfigurations, awaiting, published>>
  /\ IF FindServiceThrows(s)
     THEN /\ UNCHANGED heap
          /\ last' = Call("batchAddOrUpdateServiceVariables", s, "none",
                          NoVariables, <<>>, "NotFoundException")
     ELSE \E variables \in Batches :
            LET service == serviceConfigurations[s]
            IN /\ heap' = [heap EXCEPT ![service.globalVariables] =
                             Merge(@, variables)]
               /\ last' = Call("batchAddOrUpdateServiceVariables", s, "none",
                               variables, <<>>, "returned")

\* The replica batch update creating the replica it does not find.
BatchAddOrUpdateReplicaVariablesUpserting(s, r) ==
  /\ now <= MaxClock
  /\ Tick
  /\ UNCHANGED <<awaiting, published>>
  /\ IF FindServiceThrows(s)
     THEN /\ UNCHANGED <<serviceConfigurations, heap>>
          /\ last' = Call("batchAddOrUpdateReplicaVariables", s, r,
                          NoVariables, <<>>, "NotFoundException")
     ELSE LET service == serviceConfigurations[s]
              index == FindReplica(service.replicas, r)
              upserted == IF index = 0 THEN AddReplica(service, r) ELSE service
              target == IF index = 0 THEN Len(upserted.replicas) ELSE index
          IN \E variables \in Batches :
               /\ serviceConfigurations' =
                    [serviceConfigurations EXCEPT ![s] = upserted]
               /\ heap' = [heap EXCEPT
                             ![upserted.replicas[target].replicaVariables] =
                                Merge(@, variables)]
               /\ last' = Call("batchAddOrUpdateReplicaVariables", s, r,
                               variables, <<>>, "returned")

\* batchAddOrUpdateReplicaVariables(serviceName, replicaId, variables); the
\* request body is read only once service and replica have been found.
BatchAddOrUpdateReplicaVariables(s, r) ==
  /\ now <= MaxClock
  /\ Tick
  /\ UNCHANGED <<serviceConfigurations, awaiting, published>>
  /\ IF FindServiceThrows(s)
     THEN /\ UNCHANGED heap
          /\ last' = Call("batchAddOrUpdateReplicaVariables", s, r,
                          NoVariables, <<>>, "NotFoundException")
     ELSE LET service == serviceConfigurations[s]
              index == FindReplica(service.replicas, r)
          IN IF index = 0
             THEN /\ UNCHANGED heap
                  /\ last' = Call("batchAddOrUpdateReplicaVariables", s, r,
                                  NoVariables, <<>>, "NotFoundException")
             ELSE \E variables \in Batches :
                    /\ heap' = [heap EXCEPT
                                  ![service.replicas[index].replicaVariables] =
                                     Merge(@, variables)]
                    /\ last' = Call("batchAddOrUpdateReplicaVariables", s, r,
                                    variables, <<>>, "returned")

\* getServiceVariable(serviceName, variableKey): the first variable of
\* globalVariables with that key, or NotFoundException.
GetServiceVariable(serviceName, variableKey) ==
  IF FindServiceThrows(serviceName)
  THEN [thrown |-> "NotFoundException"]
  ELSE LET list == heap[serviceConfigurations[serviceName].globalVariables]
           index == FindIndexOfKey(list, variableKey)
       IN IF index = 0
          THEN [thrown |-> "NotFoundException"]
          ELSE [thrown |-> "none", variable |-> list[index]]

\* deleteService(name)
DeleteService(s) ==
  /\ now <= MaxClock
  /\ Tick
  /\ UNCHANGED <<awaiting, published>>
  /\ LET deleted == RepositoryDelete(serviceConfigurations, s)
     IN /\ serviceConfigurations' = deleted.map
        /\ heap' = Collect(deleted.map, heap)
        /\ last' = Call("deleteService", s, "none", NoVariables, <<>>,
                        IF deleted.result THEN "true" ELSE "false")

\* Array.prototype.filter with the test of deleteReplica.
RECURSIVE FilterOutId(_, _)
FilterOutId(replicas, replicaId) ==
  IF replicas = <<>> THEN <<>>
  ELSE IF Head(replicas).id # replicaId
       THEN <<Head(replicas)>> \o FilterOutId(Tail(replicas), replicaId)
       ELSE FilterOutId(Tail(replicas), replicaId)

\* deleteReplica that drops the service with its last replica.
DeleteReplicaDroppingEmptyService(s, r) ==
  /\ now <= MaxClock
  /\ Tick
  /\ UNCHANGED <<awaiting, published>>
  /\ IF FindServiceThrows(s)
     THEN /\ UNCHANGED <<serviceConfigurations, heap>>
          /\ last' = Call("deleteReplica", s, r, NoVariables, <<>>,
                          "NotFoundException")
     ELSE LET service == serviceConfigurations[s]
              initialLength == Len(service.replicas)
              filtered == FilterOutId(service.replicas, r)
              map == IF filtered = <<>>
                     THEN MapDelete(serviceConfigurations, s)
                     ELSE [serviceConfigurations EXCEPT ![s].replicas = filtered]
          IN /\ serviceConfigurations' = map
             /\ heap' = Collect(map, heap)
             /\ last' = Call("deleteReplica", s, r, NoVariables, <<>>,
                             IF Len(filtered) < initialLength
                             THEN "true" ELSE "false")

\* deleteReplica(serviceName, replicaId)
DeleteReplica(s, r) ==
  /\ now <= MaxClock
  /\ Tick
  /\ UNCHANGED <<awaiting, published>>
  /\ IF FindServiceThrows(s)
     THEN /\ UNCHANGED <<serviceConfigurations, heap>>
          /\ last' = Call("deleteReplica", s, r, NoVariables, <<>>,
                          "NotFoundException")
     ELSE LET service == serviceConfigurations[s]
              initialLength == Len(service.replicas)
              filtered == FilterOutId(service.replicas, r)
              map == [serviceConfigurations EXCEPT ![s].replicas = filtered]
          IN /\ serviceConfigurations' = map
             /\ heap' = Collect(map, heap)
             /\ last' = Call("deleteReplica", s, r, NoVariables, <<>>,
                             IF Len(filtered) < initialLength
                             THEN "true" ELSE "false")

\* ------------------------------------------------------------ EventService
\* The reduce keeping the first value written for a key.
ValueMapFirstOccurrence(replicaVariables) ==
  LET keys == {replicaVariables[i].key : i \in 1..Len(replicaVariables)}
  IN [k \in keys |->
        replicaVariables[FindIndexOfKey(replicaVariables, k)].value]

\* The reduce of buildConfigurationDto: accumulator[key] = value.
ValueMap(replicaVariables) ==
  LET keys == {replicaVariables[i].key : i \in 1..Len(replicaVariables)}
  IN [k \in keys |->
        LET i == CHOOSE i \in 1..Len(replicaVariables) :
                   /\ replicaVariables[i].key = k
                   /\ \A j \in (i + 1)..Len(replicaVariables) :
                        replicaVariables[j].key # k
        IN replicaVariables[i].value]

\* buildConfigurationDto(configurations), reading the arrays in heap h.
BuildConfigurationDto(configurations, h) ==
  [configurations |->
     [i \in 1..Len(configurations) |->
        [replicaId |-> configurations[i].id,
         variables |-> ValueMap(h[configurations[i].replicaVariables])]]]

\* EventPublisherService.publishEvent(pubsubName, topic, data)
PublishEvent(pubsubName, topic, data) ==
  Append(published, [pubsubName |-> pubsubName, topic |-> topic, data |-> data])

\* publishConfiguration(serviceName, configurations); no method of
\* ConfigurationService calls it, so it is an entry point of its own, handed
\* the replicas of a stored service.
PublishConfiguration(s) ==
  /\ now <= MaxClock
  /\ Len(published) < MaxEvents
  /\ Stored(s)
  /\ Tick
  /\ published' = PublishEvent("pubsub", <<"config", s>>,
                     BuildConfigurationDto(serviceConfigurations[s].replicas,
                                           heap))
  /\ UNCHANGED <<serviceConfigurations, heap, awaiting>>
  /\ last' = Call("publishConfiguration", s, "none", NoVariables, <<>>,
                  "returned")

\* ------------------------------------------------------------ specification
Next ==
  \/ \E s \in Services, r \in Replicas : Heartbeat(s, r)
  \/ \E s \in Services, r \in Replicas : AddService(s, r)
  \/ \E s \in Services, r \in Replicas, c \in SidecarConfigurations :
       SidecarResponds(s, r, c)
  \/ \E s \in Services, r \in Replicas : SidecarFails(s, r)
  \/ \E s \in Services : BatchAddOrUpdateServiceVariables(s)
  \/ \E s \in Services, r \in Replicas : BatchAddOrUpdateReplicaVariables(s, r)
  \/ \E s \in Services : DeleteService(s)
  \/ \E s \in Services, r \in Replicas : DeleteReplica(s, r)
  \/ \E s \in Services : PublishConfiguration(s)

Spec == Init /\ [][Next]_vars

\* ------------------------------------- the repository called on its own
\* The public methods of ServiceConfigurationRepository called directly:
\* update has no caller in ConfigurationService, and create and delete are
\* reached from there only through addService and deleteService.  The
\* records handed in are those addService builds; the arrays they refer to
\* stay empty, the repository never reads them.
ServiceConfigurations ==
  {[NewService(s, "r1") EXCEPT
      !.variableDefinitions = VariableDefinitions(c)] :
     s \in Services,
     c \in {<<>>, <<[key |-> "k1", type |-> "integer",
                     defaultValue |-> "500"]>>}}

\* Partial<ServiceConfiguration>: any subset of the fields.
Updates ==
  { <<>>,
    [name |-> "A"],
    [name |-> "B"],
    [replicas |-> <<>>],
    [variableDefinitions |-> <<>>],
    [replicas |-> <<>>,
     variableDefinitions |-> <<[key |-> "k2", type |-> "string"]>>] }

RepositoryCall(op, name, argument, outcome, result) ==
  [op |-> op, svc |-> name, rep |-> "none", vars |-> NoVariables,
   data |-> argument, outcome |-> outcome, result |-> result]

CreateCall(serviceConfiguration) ==
  /\ now <= MaxClock
  /\ Tick
  /\ UNCHANGED <<heap, awaiting, published>>
  /\ LET created == RepositoryCreate(serviceConfigurations,
                                     serviceConfiguration)
     IN /\ serviceConfigurations' = created.map
        /\ last' = RepositoryCall("create", serviceConfiguration.name,
                                  serviceConfiguration,
                                  IF created.thrown = "none"
                                  THEN "returned" ELSE created.thrown,
                                  serviceConfiguration)

UpdateCall(name, update) ==
  /\ now <= MaxClock
  /\ Tick
  /\ UNCHANGED <<heap, awaiting, published>>
  /\ LET updated == RepositoryUpdate(serviceConfigurations, name, update)
     IN /\ serviceConfigurations' = updated.map
        /\ last' = IF updated.thrown = "none"
                   THEN RepositoryCall("update", name, update, "returned",
                                       updated.result)
                   ELSE RepositoryCall("update", name, update,
                                       updated.thrown, "none")

DeleteCall(name) ==
  /\ now <= MaxClock
  /\ Tick
  /\ UNCHANGED <<heap, awaiting, published>>
  /\ LET deleted == RepositoryDelete(serviceConfigurations, name)
     IN /\ serviceConfigurations' = deleted.map
        /\ last' = RepositoryCall("delete", name, "none",
                                  IF deleted.result THEN "true" ELSE "false",
                                  deleted.result)

RepositoryNext ==
  \/ \E serviceConfiguration \in ServiceConfigurations :
       CreateCall(serviceConfiguration)
  \/ \E name \in Services, update \in Updates : UpdateCall(name, update)
  \/ \E name \in Services : DeleteCall(name)

RepositorySpec == Init /\ [][RepositoryNext]_vars

\* --------------------------------- publishConfiguration called on its own
\* publishConfiguration(serviceName, configurations) takes any list of
\* replicas, whatever their arrays hold: the arrays are drawn when the run
\* starts, a key twice in one array included, and the lists handed in name
\* them.
VariableLists == {<<>>} \cup Batches

ReplicaLists ==
  LET seeded == [id |-> "r1", replicaVariables |-> SeedArray("A"),
                 lastSeen |-> NoDate]
      added == [id |-> "r2", replicaVariables |-> GlobalArray("A"),
                lastSeen |-> NoDate]
  IN {<<>>, <<seeded>>, <<seeded, added>>, <<added, seeded>>}

PublishInit ==
  /\ serviceConfigurations = [s \in {} |-> s]
  /\ \E globalVariables \in VariableLists, replicaVariables \in VariableLists :
       heap = [ref \in Refs |->
                 IF ref = GlobalArray("A") THEN globalVariables
                 ELSE IF ref = SeedArray("A") THEN replicaVariables
                 ELSE <<>>]
  /\ awaiting = [c \in Services \X Replicas |-> 0]
  /\ published = <<>>
  /\ now = 1
  /\ last = Call("none", "none", "none", NoVariables, <<>>, "none")

PublishConfigurationCall(serviceName, configurations) ==
  /\ now <= MaxClock
  /\ Len(published) < MaxEvents
  /\ Tick
  /\ published' = PublishEvent("pubsub", <<"config", serviceName>>,
                               BuildConfigurationDto(configurations, heap))
  /\ UNCHANGED <<serviceConfigurations, heap, awaiting>>
  /\ last' = Call("publishConfiguration", serviceName, "none", NoVariables,
                  configurations, "returned")

PublishNext ==
  \E configurations \in ReplicaLists :
    PublishConfigurationCall("A", configurations)

PublishSpec == PublishInit /\ [][PublishNext]_vars

\* ------------------------------------ the replicas of a registered service
\* The calls that address the replicas of one service, from the state in
\* which addService("A", "r0") has just stored it with the sidecar's
\* answer; the clock is read from there on.  Every replica a heartbeat adds
\* then comes from addReplica.
RegisteredInit ==
  \E configuration \in SidecarConfigurations :
    /\ serviceConfigurations =
         [n \in {"A"} |->
            [NewService("A", "r0") EXCEPT
               !.variableDefinitions = VariableDefinitions(configuration)]]
    /\ heap = [ref \in Refs |->
                 IF ref = GlobalArray("A")
                 THEN DefaultVariables(configuration)
                 ELSE <<>>]
    /\ awaiting = [c \in Services \X Replicas |-> 0]
    /\ published = <<>>
    /\ now = 1
    /\ last = Call("addService", "A", "r0", NoVariables, configuration,
                   "resolved")

ReplicaNext ==
  \/ \E r \in Replicas : Heartbeat("A", r)
  \/ \E r \in Replicas \cup {"r0"} : BatchAddOrUpdateReplicaVariables("A", r)

ReplicaSpec == RegisteredInit /\ [][ReplicaNext]_vars

\* ------------------------------------------------------ terms of the claims
\* The JSON type of a value, and the schema check of a value against the
\* declared type of its definition.
JsonType(value) == IF value = "abc" THEN "string" ELSE "integer"

Conforms(type, value) == JsonType(value) = type

ValidVariable(variableDefinitions, variable) ==
  \E i \in 1..Len(variableDefinitions) :
    /\ variableDefinitions[i].key = variable.key
    /\ Conforms(variableDefinitions[i].type, variable.value)

ValidBatch(variableDefinitions, variables) ==
  \A i \in 1..Len(variables) : ValidVariable(variableDefinitions, variables[i])

GlobalVariablesOf(s) == heap[serviceConfigurations[s].globalVariables]

ReplicaVariablesOf(s, i) ==
  heap[serviceConfigurations[s].replicas[i].replicaVariables]

\* --------------------------------------------------------------------- C1
\* C1: a heartbeat for a service that is not in the repository leaves
\* exactly one registration of it under way: the first one issues the one
\* sidecar request, a concurrent one issues no further request.
C1_OneRegistrationPerUnknownService ==
  [][\A s \in Services :
       (last'.op = "heartbeat" /\ last'.svc = s /\ ~Stored(s))
         => InFlight(s)' = 1]_vars

\* --------------------------------------------------------------------- C2
\* C2: a global batch update holding a variable without definition, or with
\* a value its definition's schema rejects, fails with ValidationFailed and
\* changes no variable list.
C2_InvalidBatchChangesNothing ==
  [][\A s \in Services :
       (/\ last'.op = "batchAddOrUpdateServiceVariables"
        /\ last'.svc = s
        /\ Stored(s)
        /\ ~ValidBatch(serviceConfigurations[s].variableDefinitions,
                       last'.vars))
         => /\ last'.outcome = "ValidationFailed"
            /\ heap' = heap
            /\ serviceConfigurations' = serviceConfigurations]_vars

\* --------------------------------------------------------------------- C3
\* C3: after a successful global batch update every replica of the service
\* holds the values of the new globalVariables, in an array of its own.
C3_ReplicasEqualGlobalAfterBatch ==
  (last.op = "batchAddOrUpdateServiceVariables" /\ last.outcome = "returned")
    => \A i \in 1..Len(serviceConfigurations[last.svc].replicas) :
         /\ ReplicaVariablesOf(last.svc, i) = GlobalVariablesOf(last.svc)
         /\ serviceConfigurations[last.svc].replicas[i].replicaVariables
              # serviceConfigurations[last.svc].globalVariables

\* --------------------------------------------------------------------- C4
\* C4: a replica batch update never changes the globalVariables of its
\* service, whichever replica it addresses.
C4_ReplicaBatchKeepsGlobal ==
  [][\A s \in Services :
       (/\ last'.op = "batchAddOrUpdateReplicaVariables"
        /\ last'.svc = s
        /\ Stored(s))
         => /\ Stored(s)'
            /\ GlobalVariablesOf(s)' = GlobalVariablesOf(s)]_vars

\* --------------------------------------------------------------------- C5
\* C5: a heartbeat for a service that is neither stored nor being registered
\* stores a record with exactly that replica and empty variable lists and
\* issues a sidecar request, the record being there before the answer.
C5_FirstHeartbeatStoresBareRecord ==
  [][\A s \in Services :
       (/\ last'.op = "heartbeat"
        /\ last'.svc = s
        /\ ~Stored(s)
        /\ InFlight(s) = 0)
         => /\ Stored(s)'
            /\ Len(serviceConfigurations'[s].replicas) = 1
            /\ serviceConfigurations'[s].replicas[1].id = last'.rep
            /\ GlobalVariablesOf(s)' = <<>>
            /\ serviceConfigurations'[s].variableDefinitions = <<>>
            /\ InFlight(s)' >= 1]_vars

\* --------------------------------------------------------------------- C6
\* C6: when the sidecar answers a registration with definitions D, the
\* stored service has one global variable {key, defaultValue} and one
\* definition per key of D, and its seed replica holds the same variables.
C6_RegistrationAppliesDefaults ==
  (last.op = "addService" /\ last.outcome = "resolved")
    => /\ Stored(last.svc)
       /\ Len(GlobalVariablesOf(last.svc)) = Len(last.data)
       /\ Len(serviceConfigurations[last.svc].variableDefinitions)
            = Len(last.data)
       /\ \A i \in 1..Len(last.data) :
            /\ GlobalVariablesOf(last.svc)[i].key = last.data[i].key
            /\ GlobalVariablesOf(last.svc)[i].value = last.data[i].defaultValue
            /\ serviceConfigurations[last.svc].variableDefinitions[i].key
                 = last.data[i].key
       /\ ReplicaVariablesOf(last.svc, 1) = GlobalVariablesOf(last.svc)

\* --------------------------------------------------------------------- C7
\* C7: the heartbeat that follows a failed registration of a service starts
\* a new registration with a new sidecar request.
C7_HeartbeatRetriesAfterFailure ==
  [][\A s \in Services :
       (/\ last.op = "addService"
        /\ last.outcome = "rejected"
        /\ last.svc = s
        /\ ~Stored(s)
        /\ InFlight(s) = 0
        /\ last'.op = "heartbeat"
        /\ last'.svc = s)
         => InFlight(s)' = InFlight(s) + 1]_vars

\* --------------------------------------------------------------------- C8
\* C8: a registration whose sidecar request fails puts no record of its
\* service into the repository and alters none: neither issuing the request
\* nor its failure touches the record or the variable arrays of the service.
C8_FailedRegistrationStoresNothing ==
  [][\A s \in Services :
       (/\ last'.op = "addService"
        /\ last'.svc = s
        /\ last'.outcome \in {"pending", "rejected"})
         => /\ Stored(s)' = Stored(s)
            /\ Stored(s) => serviceConfigurations'[s] = serviceConfigurations[s]
            /\ heap' = heap]_vars

C8_Witness ==
  /\ last.op = "addService"
  /\ last.outcome = "rejected"
  /\ ~Stored(last.svc)
  /\ InFlight(last.svc) = 0

\* --------------------------------------------------------------------- C9
\* C9: no heartbeat ends with an error handed to its caller, for a known or
\* an unknown service.
C9_HeartbeatNeverThrows ==
  last.op = "heartbeat" => last.outcome = "returned"

\* -------------------------------------------------------------------- C10
\* C10: a successful global batch update publishes exactly one event, on
\* the topic of its service, listing every replica of the service with its
\* variables after the update.
C10_GlobalBatchPublishesOneEvent ==
  [][\A s \in Services :
       (/\ last'.op = "batchAddOrUpdateServiceVariables"
        /\ last'.svc = s
        /\ last'.outcome = "returned")
         => /\ Len(published') = Len(published) + 1
            /\ published'[Len(published')].topic = <<"config", s>>
            /\ published'[Len(published')].data =
                 BuildConfigurationDto(serviceConfigurations'[s].replicas,
                                       heap')]_vars

\* -------------------------------------------------------------------- C11
\* C11: a successful replica batch update publishes exactly one event, on
\* the topic of its service, listing the updated replica alone with its
\* variables after the update.
C11_ReplicaBatchPublishesOneEvent ==
  [][\A s \in Services :
       (/\ last'.op = "batchAddOrUpdateReplicaVariables"
        /\ last'.svc = s
        /\ last'.outcome = "returned")
         => LET index == FindReplica(serviceConfigurations'[s].replicas,
                                     last'.rep)
            IN /\ Len(published') = Len(published) + 1
               /\ published'[Len(published')].topic = <<"config", s>>
               /\ published'[Len(published')].data =
                    BuildConfigurationDto(
                      <<serviceConfigurations'[s].replicas[index]>>, heap')]_vars

\* -------------------------------------------------------------------- C13
\* C13: every key of a stored service's globalVariables has a definition
\* with the same key in that service's variableDefinitions.
C13_GlobalKeysAreDefined ==
  \A s \in DOMAIN serviceConfigurations :
    \A i \in 1..Len(GlobalVariablesOf(s)) :
      \E j \in 1..Len(serviceConfigurations[s].variableDefinitions) :
        serviceConfigurations[s].variableDefinitions[j].key
          = GlobalVariablesOf(s)[i].key

\* -------------------------------------------------------------------- C14
\* C14 as stated: a delete whose target does not exist fails with NotFound,
\* so a delete either succeeds or ends with NotFound.
C14_AbsentTargetIsNotFound ==
  last.op \in {"deleteService", "deleteReplica"}
    => last.outcome \in {"true", "NotFoundException"}

\* C14 as amended: deleteService returns false for an absent service and
\* true after removing exactly the stored one; deleteReplica fails with
\* NotFound for an absent service, returns false for an absent replica and
\* true after removing exactly the replicas with that id.
C14_DeleteOutcomes ==
  [][/\ last'.op = "deleteService"
          => /\ last'.outcome = (IF Stored(last'.svc) THEN "true" ELSE "false")
             /\ DOMAIN serviceConfigurations'
                  = DOMAIN serviceConfigurations \ {last'.svc}
             /\ \A t \in DOMAIN serviceConfigurations' :
                  serviceConfigurations'[t] = serviceConfigurations[t]
     /\ (last'.op = "deleteReplica" /\ ~Stored(last'.svc))
          => /\ last'.outcome = "NotFoundException"
             /\ serviceConfigurations' = serviceConfigurations
             /\ heap' = heap
     /\ (last'.op = "deleteReplica" /\ Stored(last'.svc))
          => LET s == last'.svc
                 Other(replica) == replica.id # last'.rep
                 known == \E i \in 1..Len(serviceConfigurations[s].replicas) :
                            serviceConfigurations[s].replicas[i].id = last'.rep
             IN /\ last'.outcome = (IF known THEN "true" ELSE "false")
                /\ serviceConfigurations' =
                     [serviceConfigurations EXCEPT ![s].replicas =
                        SelectSeq(@, Other)]]_vars

C14_Witness ==
  \/ /\ last.op = "deleteService"
     /\ last.outcome = "false"
     /\ DOMAIN serviceConfigurations # {}
  \/ /\ last.op = "deleteReplica"
     /\ last.outcome = "false"

\* -------------------------------------------------------------------- C15
\* C15: deleteReplica on the only replica of a service empties the replica
\* list and keeps the service record, with the same globalVariables and
\* variableDefinitions; no deleteReplica removes a service.
C15_DeleteLastReplicaKeepsService ==
  [][\A s \in Services :
       (last'.op = "deleteReplica" /\ last'.svc = s /\ Stored(s))
         => /\ Stored(s)'
            /\ serviceConfigurations'[s].globalVariables
                 = serviceConfigurations[s].globalVariables
            /\ GlobalVariablesOf(s)' = GlobalVariablesOf(s)
            /\ serviceConfigurations'[s].variableDefinitions
                 = serviceConfigurations[s].variableDefinitions
            /\ (/\ Len(serviceConfigurations[s].replicas) = 1
                /\ serviceConfigurations[s].replicas[1].id = last'.rep)
                 => serviceConfigurations'[s].replicas = <<>>]_vars

C15_Witness ==
  /\ last.op = "deleteReplica"
  /\ last.outcome = "true"
  /\ Stored(last.svc)
  /\ serviceConfigurations[last.svc].replicas = <<>>
  /\ GlobalVariablesOf(last.svc) # <<>>

\* -------------------------------------------------------------------- C16
\* C16: right after a successful single-variable global update of key k to
\* value v, getServiceVariable(s, k) returns {key: k, value: v}.
C16_PutThenGetRoundTrip ==
  (/\ last.op = "batchAddOrUpdateServiceVariables"
   /\ last.outcome = "returned"
   /\ Len(last.vars) = 1)
    => GetServiceVariable(last.svc, last.vars[1].key)
         = [thrown |-> "none",
            variable |-> [key |-> last.vars[1].key,
                          value |-> last.vars[1].value]]

\* The key was in globalVariables before the update, with another value.
C16_Witness ==
  /\ last.op = "batchAddOrUpdateServiceVariables"
  /\ last.outcome = "returned"
  /\ last.vars = <<[key |-> "k1", value |-> "abc"]>>
  /\ Len(GlobalVariablesOf(last.svc)) = 2
  /\ GlobalVariablesOf(last.svc)[1] = [key |-> "k1", value |-> "abc"]

\* -------------------------------------------------------------------- C17
\* C17: create, reached when the sidecar has answered a registration, fails
\* for a name that is stored and leaves the stored records as they were;
\* for a name that is not stored it inserts the record under that name and
\* leaves the other records as they were.
C17_CreateRejectsDuplicateName ==
  [][\A s \in Services :
       (/\ last'.op = "addService"
        /\ last'.svc = s
        /\ last'.outcome \in {"resolved", "Error"})
         => IF Stored(s)
            THEN /\ last'.outcome = "Error"
                 /\ serviceConfigurations' = serviceConfigurations
                 /\ heap' = heap
            ELSE /\ last'.outcome = "resolved"
                 /\ DOMAIN serviceConfigurations'
                      = DOMAIN serviceConfigurations \cup {s}
                 /\ serviceConfigurations'[s].name = s
                 /\ \A t \in DOMAIN serviceConfigurations :
                      serviceConfigurations'[t] = serviceConfigurations[t]]_vars

C17_Witness ==
  /\ last.op = "addService"
  /\ last.outcome = "Error"
  /\ Stored(last.svc)
  /\ serviceConfigurations[last.svc].replicas[1].id # last.rep

\* -------------------------------------------------------------------- C18
\* C18: a global batch update of a service that is not stored, and a
\* replica batch update of a service that is not stored or of a replica the
\* service does not have, fail with NotFound and leave the repository and
\* every variable list as they were.
C18_AbsentTargetChangesNothing ==
  [][\A s \in Services :
       (/\ last'.svc = s
        /\ \/ /\ last'.op = "batchAddOrUpdateServiceVariables"
              /\ ~Stored(s)
           \/ /\ last'.op = "batchAddOrUpdateReplicaVariables"
              /\ \/ ~Stored(s)
                 \/ \A i \in 1..Len(serviceConfigurations[s].replicas) :
                      serviceConfigurations[s].replicas[i].id # last'.rep)
         => /\ last'.outcome = "NotFoundException"
            /\ serviceConfigurations' = serviceConfigurations
            /\ heap' = heap]_vars

\* An unknown replica of a stored service was addressed.
C18_Witness ==
  /\ last.op = "batchAddOrUpdateReplicaVariables"
  /\ last.outcome = "NotFoundException"
  /\ Stored(last.svc)
  /\ Len(serviceConfigurations[last.svc].replicas) = 1

\* -------------------------------------------------------------------- C19
\* C19: a heartbeat for a service whose registration is waiting for the
\* sidecar starts no second registration, is accepted, and adds its replica
\* to the record of the service.
C19_HeartbeatWhileRegisteringAddsReplica ==
  [][\A s \in Services :
       (/\ last'.op = "heartbeat"
        /\ last'.svc = s
        /\ ~Stored(s)
        /\ InFlight(s) > 0)
         => /\ InFlight(s)' = InFlight(s)
            /\ last'.outcome = "returned"
            /\ Stored(s)'
            /\ \E i \in 1..Len(serviceConfigurations'[s].replicas) :
                 serviceConfigurations'[s].replicas[i].id = last'.rep]_vars

\* -------------------------------------------------------------------- C20
\* C20: a heartbeat for a stored service that has no replica with the given
\* id appends one replica with that id, holding the values of the service's
\* globalVariables and the current time as lastSeen, and changes nothing
\* else of the service.
C20_HeartbeatAppendsReplica ==
  [][\A s \in Services :
       (/\ last'.op = "heartbeat"
        /\ last'.svc = s
        /\ Stored(s)
        /\ \A i \in 1..Len(serviceConfigurations[s].replicas) :
             serviceConfigurations[s].replicas[i].id # last'.rep)
         => LET before == serviceConfigurations[s]
                after == serviceConfigurations'[s]
                n == Len(before.replicas)
            IN /\ Stored(s)'
               /\ Len(after.replicas) = n + 1
               /\ \A i \in 1..n :
                    /\ after.replicas[i] = before.replicas[i]
                    /\ heap'[after.replicas[i].replicaVariables]
                         = heap[before.replicas[i].replicaVariables]
               /\ after.replicas[n + 1].id = last'.rep
               /\ heap'[after.replicas[n + 1].replicaVariables]
                    = GlobalVariablesOf(s)
               /\ after.replicas[n + 1].lastSeen = now
               /\ after.globalVariables = before.globalVariables
               /\ GlobalVariablesOf(s)' = GlobalVariablesOf(s)
               /\ after.variableDefinitions = before.variableDefinitions]_vars

C20_Witness ==
  /\ last.op = "heartbeat"
  /\ last.outcome = "returned"
  /\ Stored(last.svc)
  /\ Len(serviceConfigurations[last.svc].replicas) = 2
  /\ serviceConfigurations[last.svc].replicas[2].id = last.rep
  /\ serviceConfigurations[last.svc].replicas[2].lastSeen = now - 1
  /\ ReplicaVariablesOf(last.svc, 2) # <<>>

\* -------------------------------------------------------------------- C21
\* C21: a heartbeat for a stored service and a replica id the service
\* already holds sets the lastSeen of that replica to the current time and
\* changes nothing else: the replica list keeps its length, ids and arrays,
\* every variable list and the variable definitions keep their content, no
\* sidecar request is issued and no event is published.
C21_HeartbeatOfKnownReplicaSetsLastSeen ==
  [][\A s \in Services :
       (/\ last'.op = "heartbeat"
        /\ last'.svc = s
        /\ Stored(s)
        /\ FindReplica(serviceConfigurations[s].replicas, last'.rep) # 0)
         => LET service == serviceConfigurations[s]
                index == FindReplica(service.replicas, last'.rep)
            IN /\ last'.outcome = "returned"
               /\ serviceConfigurations' =
                    [serviceConfigurations EXCEPT
                       ![s].replicas[index].lastSeen = now]
               /\ heap' = heap
               /\ awaiting' = awaiting
               /\ published' = published]_vars

C21_Witness ==
  /\ last.op = "heartbeat"
  /\ last.outcome = "returned"
  /\ Stored(last.svc)
  /\ Len(serviceConfigurations[last.svc].replicas) = 2
  /\ serviceConfigurations[last.svc].replicas[1].id = last.rep
  /\ serviceConfigurations[last.svc].replicas[1].lastSeen = now - 1
  /\ serviceConfigurations[last.svc].replicas[2].lastSeen < now - 1

\* -------------------------------------------------------------------- C22
\* C22: keys are unique within every globalVariables and replicaVariables
\* list in every reachable state, and a successful batch update (global or
\* replica scope) merges its batch into the addressed list: every key the
\* list held keeps its position, every key of the batch not held before is
\* appended in the order of its first occurrence in the batch, a key of the
\* batch carries the value of its last occurrence in the batch, and every
\* other key keeps its value.
C22_MergeOverwritesInPlaceAndAppends ==
  /\ [](/\ \A s \in DOMAIN serviceConfigurations :
             LET KeysUnique(list) ==
                   \A i, j \in 1..Len(list) :
                     list[i].key = list[j].key => i = j
             IN /\ KeysUnique(GlobalVariablesOf(s))
                /\ \A i \in 1..Len(serviceConfigurations[s].replicas) :
                     KeysUnique(ReplicaVariablesOf(s, i))
        /\ (/\ last.op \in {"batchAddOrUpdateServiceVariables",
                            "batchAddOrUpdateReplicaVariables"}
            /\ last.outcome = "returned")
             => LET service == serviceConfigurations[last.svc]
                    list == IF last.op = "batchAddOrUpdateServiceVariables"
                            THEN GlobalVariablesOf(last.svc)
                            ELSE ReplicaVariablesOf(last.svc,
                                   FindReplica(service.replicas, last.rep))
                    batch == last.vars
                IN \A i \in 1..Len(batch) :
                     (\A later \in (i + 1)..Len(batch) :
                        batch[later].key # batch[i].key)
                       => \E j \in 1..Len(list) : list[j] = batch[i])
  /\ [][(/\ last'.op \in {"batchAddOrUpdateServiceVariables",
                          "batchAddOrUpdateReplicaVariables"}
         /\ last'.outcome = "returned")
          => LET service == serviceConfigurations[last'.svc]
                 ref == IF last'.op = "batchAddOrUpdateServiceVariables"
                        THEN service.globalVariables
                        ELSE service.replicas[
                               FindReplica(service.replicas, last'.rep)
                             ].replicaVariables
                 batch == last'.vars
                 n == Len(heap[ref])
             IN /\ Len(heap'[ref]) >= n
                /\ \A i \in 1..n :
                     /\ heap'[ref][i].key = heap[ref][i].key
                     /\ heap'[ref][i].value # heap[ref][i].value
                          => \E p \in 1..Len(batch) :
                               batch[p].key = heap[ref][i].key
                /\ \A i \in (n + 1)..Len(heap'[ref]) :
                     /\ \E p \in 1..Len(batch) :
                          batch[p].key = heap'[ref][i].key
                     /\ \A j \in (n + 1)..(i - 1) :
                          \E p \in 1..Len(batch) :
                            /\ batch[p].key = heap'[ref][j].key
                            /\ \A q \in 1..p :
                                 batch[q].key # heap'[ref][i].key]_vars

C22_Witness ==
  /\ last.op = "batchAddOrUpdateServiceVariables"
  /\ last.outcome = "returned"
  /\ Len(last.vars) = 2
  /\ last.vars[1].key = last.vars[2].key
  /\ last.vars[1].value # last.vars[2].value
  /\ Len(GlobalVariablesOf(last.svc)) = 2
  /\ GlobalVariablesOf(last.svc)[1].key = last.vars[2].key
  /\ GlobalVariablesOf(last.svc)[1].value = last.vars[2].value

\* -------------------------------------------------------------------- C23
\* C23: two successful global batch updates of one service that follow one
\* another lose no update: afterwards every key of the second batch holds
\* the value of its last occurrence there, every key only the first batch
\* wrote still holds the value the first batch gave it, and every replica
\* of the service holds that same final list.
C23_TwoBatchUpdatesLoseNothing ==
  [][(/\ last.op = "batchAddOrUpdateServiceVariables"
      /\ last.outcome = "returned"
      /\ last'.op = "batchAddOrUpdateServiceVariables"
      /\ last'.outcome = "returned"
      /\ last'.svc = last.svc)
       => LET s == last.svc
              first == last.vars
              second == last'.vars
              final == GlobalVariablesOf(s)'
              Value(list, k) == ValueMap(list)[k]
          IN /\ \A i \in 1..Len(second) :
                  Value(final, second[i].key) = Value(second, second[i].key)
             /\ \A i \in 1..Len(first) :
                  (\A j \in 1..Len(second) : second[j].key # first[i].key)
                    => Value(final, first[i].key) = Value(first, first[i].key)
             /\ \A i \in 1..Len(serviceConfigurations'[s].replicas) :
                  ReplicaVariablesOf(s, i)' = final]_vars

\* -------------------------------------------------------------------- C24
\* C24: heartbeats lead a service to Active.  In the form a finite run
\* refutes: once a heartbeat for a service has been handled, the service is
\* either stored or has a sidecar request in flight whose answer will store
\* it; a service with neither can never become Active through heartbeats,
\* however many of them arrive.
C24_HeartbeatLeavesServiceStoredOrRegistering ==
  last.op = "heartbeat" => (Stored(last.svc) \/ InFlight(last.svc) > 0)

\* -------------------------------------------------------------------- C25
\* C25: a heartbeat, a global or replica batch update, or a replica
\* deletion leaves every stored service stored with the variableDefinitions
\* it had before the call.
C25_VariableDefinitionsStay ==
  [][\A s \in Services :
       (/\ Stored(s)
        /\ last'.op \in {"heartbeat", "batchAddOrUpdateServiceVariables",
                         "batchAddOrUpdateReplicaVariables", "deleteReplica"})
         => /\ Stored(s)'
            /\ serviceConfigurations'[s].variableDefinitions
                 = serviceConfigurations[s].variableDefinitions]_vars

C25_Witness ==
  /\ last.op = "batchAddOrUpdateServiceVariables"
  /\ last.outcome = "returned"
  /\ last.vars # <<>>
  /\ Len(serviceConfigurations[last.svc].variableDefinitions) = 1
  /\ Len(GlobalVariablesOf(last.svc)) = 2

C27_UpdateWritesGivenFields ==
  [][last'.op = "update"
       => LET name == last'.svc
              update == last'.data
          IN IF ~Stored(name)
             THEN /\ last'.outcome = "NotFoundException"
                  /\ serviceConfigurations' = serviceConfigurations
             ELSE /\ last'.outcome = "returned"
                  /\ DOMAIN serviceConfigurations'
                       = DOMAIN serviceConfigurations
                  /\ \A n \in DOMAIN serviceConfigurations \ {name} :
                       serviceConfigurations'[n] = serviceConfigurations[n]
                  /\ DOMAIN serviceConfigurations'[name]
                       = DOMAIN serviceConfigurations[name]
                  /\ \A f \in DOMAIN serviceConfigurations[name] :
                       serviceConfigurations'[name][f] =
                         IF f \in DOMAIN update
                         THEN update[f]
                         ELSE serviceConfigurations[name][f]
                  /\ last'.result = serviceConfigurations'[name]]_vars

C27_Witness ==
  /\ last.op = "update"
  /\ last.outcome = "returned"
  /\ DOMAIN last.data = {"replicas"}
  /\ serviceConfigurations[last.svc].replicas = <<>>
  /\ serviceConfigurations[last.svc].variableDefinitions # <<>>
  /\ \E n \in DOMAIN serviceConfigurations : n # last.svc

\* -------------------------------------------------------------------- C28
\* C28: delete(name) returns true exactly when a record was stored under
\* name; afterwards exists(name) is false, findAll holds exactly the records
\* stored under the other names, and each of those is stored as before.
C28_DeleteRemovesOneRecord ==
  [][last'.op = "delete"
       => LET name == last'.svc
          IN /\ last'.result = Stored(name)
             /\ last'.outcome = IF Stored(name) THEN "true" ELSE "false"
             /\ name \notin DOMAIN serviceConfigurations'
             /\ DOMAIN serviceConfigurations'
                  = DOMAIN serviceConfigurations \ {name}
             /\ \A n \in DOMAIN serviceConfigurations \ {name} :
                  serviceConfigurations'[n] = serviceConfigurations[n]
             /\ FindAll(serviceConfigurations')
                  = {serviceConfigurations[n] :
                       n \in DOMAIN serviceConfigurations \ {name}}]_vars

C28_Witness ==
  /\ last.op = "delete"
  /\ last.outcome = "true"
  /\ ~Stored(last.svc)
  /\ Cardinality(FindAll(serviceConfigurations)) = 1

\* -------------------------------------------------------------------- C29
\* C29: the configurations of the payload published for a list of replicas
\* hold one entry per replica, in the order of the list; the entry carries
\* the replica's id
\* and a map whose keys are the keys of the replica's replicaVariables, each
\* key mapped to the value of its last occurrence in that list.
C29_PayloadHasOneEntryPerReplica ==
  last.op = "publishConfiguration"
    => LET configurations == last.data
           payload == published[Len(published)].data.configurations
       IN /\ Len(payload) = Len(configurations)
          /\ \A i \in 1..Len(configurations) :
               LET list == heap[configurations[i].replicaVariables]
               IN /\ DOMAIN payload[i] = {"replicaId", "variables"}
                  /\ payload[i].replicaId = configurations[i].id
                  /\ DOMAIN payload[i].variables
                       = {list[j].key : j \in 1..Len(list)}
                  /\ \A j \in 1..Len(list) :
                       (\A later \in (j + 1)..Len(list) :
                          list[later].key # list[j].key)
                         => payload[i].variables[list[j].key] = list[j].value

C29_Witness ==
  /\ last.op = "publishConfiguration"
  /\ Len(last.data) = 2
  /\ last.data[1].id = "r2"
  /\ LET list == heap[last.data[2].replicaVariables]
     IN /\ Len(list) = 2
        /\ list[1].key = list[2].key
        /\ list[1].value # list[2].value
        /\ published[Len(published)].data.configurations[2]
             .variables[list[1].key]
             = list[2].value

\* -------------------------------------------------------------------- C30
\* C30: in every reachable state the replica ids of one service are
\* pairwise distinct, whatever heartbeats, registrations, updates and
\* deletions have been handled, in whatever order.
C30_ReplicaIdsAreDistinct ==
  \A s \in DOMAIN serviceConfigurations :
    \A i, j \in 1..Len(serviceConfigurations[s].replicas) :
      serviceConfigurations[s].replicas[i].id
        = serviceConfigurations[s].replicas[j].id => i = j

C30_Witness ==
  /\ last.op = "heartbeat"
  /\ last.outcome = "returned"
  /\ Stored(last.svc)
  /\ Len(serviceConfigurations[last.svc].replicas) = 2
  /\ serviceConfigurations[last.svc].replicas[2].id = last.rep
  /\ serviceConfigurations[last.svc].replicas[2].lastSeen = now - 1
  /\ serviceConfigurations[last.svc].replicas[1].lastSeen = now - 2

\* -------------------------------------------------------------------- C31
\* C31: a successful replica batch update leaves the replicaVariables of
\* every other replica of the service with the content they had, also when
\* the replicas were added by heartbeats.
C31_ReplicaBatchKeepsOtherReplicas ==
  [][\A s \in Services :
       (/\ last'.op = "batchAddOrUpdateReplicaVariables"
        /\ last'.svc = s
        /\ last'.outcome = "returned")
         => \A i \in 1..Len(serviceConfigurations[s].replicas) :
              serviceConfigurations[s].replicas[i].id # last'.rep
                => ReplicaVariablesOf(s, i)' = ReplicaVariablesOf(s, i)]_vars

\* -------------------------------------------------------------------- C32
\* C32: a deleteService that returns true leaves the service absent from
\* the repository and from findAllServiceNames, and a heartbeat for that
\* service handled next treats it as unknown and registers it afresh: the
\* heartbeat returns and leaves a sidecar request for the service in flight.
C32_HeartbeatAfterDeleteRegistersAfresh ==
  [][\A s \in Services :
       /\ (/\ last'.op = "deleteService"
           /\ last'.svc = s
           /\ last'.outcome = "true")
            => /\ FindByNameThrows(serviceConfigurations', s)
               /\ s \notin FindAllServiceNames(serviceConfigurations')
       /\ (/\ last.op = "deleteService"
           /\ last.svc = s
           /\ last.outcome = "true"
           /\ last'.op = "heartbeat"
           /\ last'.svc = s)
            => /\ last'.outcome = "returned"
               /\ InFlight(s)' = 1]_vars

\* -------------------------------------------------------------------- C33
\* C33: in every reachable state of the repository each record is stored
\* under the key equal to its name field, update calls with any fields
\* included, and findAllServiceNames yields exactly the names for which
\* findByName succeeds.
C33_RecordsStoredUnderTheirName ==
  /\ \A n \in DOMAIN serviceConfigurations :
       serviceConfigurations[n].name = n
  /\ FindAllServiceNames(serviceConfigurations)
       = {n \in Services : ~FindByNameThrows(serviceConfigurations, n)}

====
